---- MODULE Spec2Model ----
(***************************************************************************)
(* Command grammar of the spt command line (src/cli/clap.rs): the four     *)
(* clap `Command` tables (playback, play, list, search), clap's parse of   *)
(* the option occurrences of one invocation into an ArgMatcher, its        *)
(* default back-fill and its validation of groups, conflicts and           *)
(* requirements, followed by the construction of the typed Action.         *)
(***************************************************************************)
EXTENDS Integers, Sequences, FiniteSets

\* Largest number of option occurrences of one invocation.
MaxArgs == 7

(***************************************************************************)
(* Tokens.  A value token is the sequence of its characters.               *)
(***************************************************************************)
Digits == <<"0", "1", "2", "3", "4", "5", "6", "7", "8", "9">>

NoValue == <<>>

Str(s) == <<s>>

VolumeTokens == {<<"0">>, <<"1">>, <<"1", "0", "0">>, <<"1", "0", "1">>}

LimitTokens == {<<"0">>, <<"1">>, <<"5", "0">>, <<"5", "1">>, <<"x">>}

(***************************************************************************)
(* The Command tables.                                                     *)
(***************************************************************************)
Commands == {"playback", "play", "list", "search"}

\* The arguments of a command, in the order of its .arg(...) calls.
PlaybackArgs ==
  <<"device", "format", "toggle", "status", "share-track", "share-album",
    "transfer", "like", "dislike", "shuffle", "repeat", "next", "previous",
    "seek", "volume">>

PlayArgs ==
  <<"device", "format", "uri", "name", "queue", "random", "album", "artist",
    "track", "show", "playlist">>

ListArgs == <<"format", "devices", "playlists", "liked", "limit">>

SearchArgs ==
  <<"format", "search", "albums", "artists", "playlists", "tracks", "shows",
    "limit">>

Range(s) == {s[i] : i \in 1..Len(s)}

ArgSeq(c) ==
  CASE c = "playback" -> PlaybackArgs
    [] c = "play" -> PlayArgs
    [] c = "list" -> ListArgs
    [] c = "search" -> SearchArgs

Args(c) == Range(ArgSeq(c))

AllIds == UNION {Args(c) : c \in Commands}

\* The arguments declared with .num_args(0).
NumArgs0(c) ==
  IF c = "playback"
    THEN {"toggle", "status", "share-track", "share-album", "like", "dislike",
          "shuffle", "repeat", "next"}
    ELSE {}

\* Arg::_build: an argument without an explicit action is a SetTrue flag when
\* it was declared with num_args(0) and a Set option of one value otherwise.
ArgAction(c, a) == IF a \in NumArgs0(c) THEN "SetTrue" ELSE "Set"

\* Arguments with neither short nor long spelling.
Positionals(c) == IF c = "search" THEN {"search"} ELSE {}

\* Arg::required(true).
RequiredArgs(c) == IF c = "search" THEN {"search"} ELSE {}

\* Arg::requires: ids (arguments or groups) an argument needs when present.
ArgRequires(c, a) ==
  IF c = "play" /\ a = "name" THEN {"contexts"} ELSE {}

\* Variant: `random` without its conflict with `track`.
ArgBlacklistRandomTrack(c, a) ==
  IF c = "play" /\ a = "queue" THEN {"album", "artist", "playlist", "show"}
  ELSE IF c = "play" /\ a = "random" THEN {"album", "artist", "show"}
  ELSE {}

\* Arg::conflicts_with_all.
ArgBlacklist(c, a) ==
  IF c = "play" /\ a = "queue" THEN {"album", "artist", "playlist", "show"}
  ELSE IF c = "play" /\ a = "random" THEN {"track", "album", "artist", "show"}
  ELSE {}

\* Arg::default_value; a SetTrue flag has the implied default "false".
HasDefault(c, a) ==
  \/ c \in {"playback", "play"} /\ a = "format"
  \/ ArgAction(c, a) = "SetTrue"

DefaultValue(c, a) ==
  IF a = "format" THEN Str("%f %s %t - %a") ELSE Str("false")

\* Variant: the rules of volume and transfer declared in the other order.
PlaybackFormatIfsSwapped ==
  << <<"seek", Str("%f %s %t - %a %r")>>,
     <<"transfer", Str("%f %s %t - %a on %d")>>,
     <<"volume", Str("%v% %f %s %t - %a")>> >>

\* Arg::default_value_ifs of `format`: (argument, IsPresent, value) in order.
PlaybackFormatIfs ==
  << <<"seek", Str("%f %s %t - %a %r")>>,
     <<"volume", Str("%v% %f %s %t - %a")>>,
     <<"transfer", Str("%f %s %t - %a on %d")>> >>

ListFormatIfs ==
  << <<"devices", Str("%v% %d")>>,
     <<"liked", Str("%t - %a (%u)")>>,
     <<"playlists", Str("%p (%u)")>> >>

\* Variant: no rule for `shows`.
SearchFormatIfsNoShows ==
  << <<"tracks", Str("%t - %a (%u)")>>,
     <<"playlists", Str("%p (%u)")>>,
     <<"artists", Str("%a (%u)")>>,
     <<"albums", Str("%b - %a (%u)")>> >>

SearchFormatIfs ==
  << <<"tracks", Str("%t - %a (%u)")>>,
     <<"playlists", Str("%p (%u)")>>,
     <<"artists", Str("%a (%u)")>>,
     <<"albums", Str("%b - %a (%u)")>>,
     <<"shows", Str("%h - %a (%u)")>> >>

DefaultValueIfs(c, a) ==
  IF a # "format" THEN <<>>
  ELSE CASE c = "playback" -> PlaybackFormatIfs
         [] c = "play" -> <<>>
         [] c = "list" -> ListFormatIfs
         [] c = "search" -> SearchFormatIfs

\* The ArgGroups of a command.
Group(id, args, multiple, required, conflicts) ==
  [id |-> id, args |-> args, multiple |-> multiple, required |-> required,
   conflicts |-> conflicts]

\* Variant: `flags` declared .multiple(false).
PlaybackGroupsFlagsExclusive ==
  {Group("jumps", {"next", "previous"}, FALSE, FALSE,
         {"single", "flags", "actions"}),
   Group("likes", {"like", "dislike"}, FALSE, FALSE, {}),
   Group("flags", {"like", "dislike", "shuffle", "repeat"}, FALSE, FALSE,
         {"single", "jumps"}),
   Group("actions", {"toggle", "status", "transfer", "volume"}, TRUE, FALSE,
         {"single", "jumps"}),
   Group("single", {"share-track", "share-album"}, FALSE, FALSE,
         {"actions", "flags", "jumps"})}

PlaybackGroups ==
  {Group("jumps", {"next", "previous"}, FALSE, FALSE,
         {"single", "flags", "actions"}),
   Group("likes", {"like", "dislike"}, FALSE, FALSE, {}),
   Group("flags", {"like", "dislike", "shuffle", "repeat"}, TRUE, FALSE,
         {"single", "jumps"}),
   Group("actions", {"toggle", "status", "transfer", "volume"}, TRUE, FALSE,
         {"single", "jumps"}),
   Group("single", {"share-track", "share-album"}, FALSE, FALSE,
         {"actions", "flags", "jumps"})}

\* Variant: `contexts` declared .multiple(true).
PlayGroupsContextsMultiple ==
  {Group("contexts", {"track", "artist", "playlist", "album", "show"}, TRUE,
         FALSE, {}),
   Group("actions", {"uri", "name"}, FALSE, TRUE, {})}

PlayGroups ==
  {Group("contexts", {"track", "artist", "playlist", "album", "show"}, FALSE,
         FALSE, {}),
   Group("actions", {"uri", "name"}, FALSE, TRUE, {})}

\* Variant: `listable` without .required(true).
ListGroupsNotRequired ==
  {Group("listable", {"devices", "playlists", "liked"}, FALSE, FALSE, {})}

ListGroups ==
  {Group("listable", {"devices", "playlists", "liked"}, FALSE, TRUE, {})}

SearchGroups ==
  {Group("searchable", {"playlists", "tracks", "albums", "artists", "shows"},
         FALSE, TRUE, {})}

Groups(c) ==
  CASE c = "playback" -> PlaybackGroups
    [] c = "play" -> PlayGroups
    [] c = "list" -> ListGroups
    [] c = "search" -> SearchGroups

GroupIds(c) == {g.id : g \in Groups(c)}

FindGroup(c, id) == CHOOSE g \in Groups(c) : g.id = id

GroupsForArg(c, a) == {g \in Groups(c) : a \in g.args}

\* The values the model supplies to an option of a command.
Values(c, a) ==
  CASE a = "volume" -> VolumeTokens
    [] a = "limit" -> LimitTokens
    [] a = "format" -> {Str("%t")}
    [] a = "seek" -> {<<"+", "1", "0">>}
    [] OTHER -> {Str("v")}

VARIABLES cmd, phase, matcher, argc, counted, err, action

vars == <<cmd, phase, matcher, argc, counted, err, action>>


(***************************************************************************)
(* The ArgMatcher: the matched arguments, each with the source of its      *)
(* value (the command line or a default) and the value.                    *)
(***************************************************************************)
EmptyMatcher == [a \in {} |-> [source |-> "CommandLine", val |-> NoValue]]

Insert(m, a, source, v) ==
  [x \in DOMAIN m \cup {a} |->
     IF x = a THEN [source |-> source, val |-> v] ELSE m[x]]

Contains(m, a) == a \in DOMAIN m

\* MatchedArg::check_explicit(IsPresent): matched, and not by a default.
CheckExplicit(m, a) == a \in DOMAIN m /\ m[a].source = "CommandLine"

Explicit(m) == {a \in DOMAIN m : CheckExplicit(m, a)}

(***************************************************************************)
(* Parser: one occurrence of option `a` with value token `v` (NoValue when *)
(* the occurrence carries none).                                           *)
(***************************************************************************)
React(c, m, a, v) ==
  IF a \notin Args(c) THEN "UnknownArgument"
  ELSE IF a \in Positionals(c) /\ Contains(m, a) THEN "UnknownArgument"
  ELSE IF ArgAction(c, a) = "Set" /\ v = NoValue THEN "InvalidValue"
  ELSE IF ArgAction(c, a) = "SetTrue" /\ v # NoValue THEN "TooManyValues"
  ELSE IF Contains(m, a) THEN "ArgumentConflict"
  ELSE "Ok"

StoredValue(c, a, v) == IF ArgAction(c, a) = "SetTrue" THEN Str("true") ELSE v

(***************************************************************************)
(* Defaults: Parser::add_defaults walks the arguments in declaration order.*)
(***************************************************************************)
\* Index of the first rule whose argument is in the matcher, 0 when none.
RECURSIVE FirstMatch(_, _, _)
FirstMatch(m, ifs, i) ==
  IF i > Len(ifs) THEN 0
  ELSE IF Contains(m, ifs[i][1]) THEN i
  ELSE FirstMatch(m, ifs, i + 1)

AddDefaultValue(c, m, a) ==
  LET ifs == DefaultValueIfs(c, a)
      k == FirstMatch(m, ifs, 1)
  IN  IF Contains(m, a) THEN m
      ELSE IF k > 0 THEN Insert(m, a, "DefaultValue", ifs[k][2])
      ELSE IF HasDefault(c, a)
        THEN Insert(m, a, "DefaultValue", DefaultValue(c, a))
      ELSE m

RECURSIVE AddDefaultsFrom(_, _, _)
AddDefaultsFrom(c, m, i) ==
  IF i > Len(ArgSeq(c)) THEN m
  ELSE AddDefaultsFrom(c, AddDefaultValue(c, m, ArgSeq(c)[i]), i + 1)

AddDefaults(c, m) == AddDefaultsFrom(c, m, 1)

(***************************************************************************)
(* Validator: conflicts first, then requirements.                          *)
(***************************************************************************)
\* gather_direct_conflicts: an argument conflicts with its blacklist, with
\* the conflicts of every group it is in, and with the other members of its
\* groups that are not multiple; a group conflicts with its conflicts.
ArgDirectConflicts(c, a) ==
  ArgBlacklist(c, a)
    \cup UNION {g.conflicts : g \in GroupsForArg(c, a)}
    \cup UNION {g.args \ {a} : g \in {h \in GroupsForArg(c, a) : ~h.multiple}}

DirectConflicts(c, id) ==
  IF id \in Args(c) THEN ArgDirectConflicts(c, id)
  ELSE IF id \in GroupIds(c) THEN FindGroup(c, id).conflicts
  ELSE {}

\* Variant: the groups of the matched arguments are left out.
PotentialArgsOnly(c, m) == Explicit(m)

\* Conflicts::potential: the explicitly matched arguments and their groups.
Potential(c, m) ==
  Explicit(m) \cup {g.id : g \in {h \in Groups(c) : h.args \cap Explicit(m) # {}}}

GatherConflicts(c, m, a) ==
  {o \in Potential(c, m) \ {a} :
     o \in DirectConflicts(c, a) \/ a \in DirectConflicts(c, o)}

ValidateConflicts(c, m) == \E a \in Explicit(m) : GatherConflicts(c, m, a) # {}

\* The required ids: required arguments and groups, and what the explicitly
\* matched arguments require.
Required(c, m) ==
  RequiredArgs(c)
    \cup {g.id : g \in {h \in Groups(c) : h.required}}
    \cup UNION {ArgRequires(c, a) : a \in Explicit(m)}

IsMissing(c, m, r) ==
  IF r \in Args(c)
    THEN ~CheckExplicit(m, r) /\ GatherConflicts(c, m, r) = {}
    ELSE FindGroup(c, r).args \cap Explicit(m) = {}

MissingRequired(c, m) == {r \in Required(c, m) : IsMissing(c, m, r)}

Validate(c, m) ==
  IF ValidateConflicts(c, m) THEN "ArgumentConflict"
  ELSE IF MissingRequired(c, m) # {} THEN "MissingRequiredArgument"
  ELSE "Ok"


(***************************************************************************)
(* Action builder: the typed Action of a validated invocation.             *)
(***************************************************************************)
DigitValue(ch) == (CHOOSE i \in 1..Len(Digits) : Digits[i] = ch) - 1

IsDigit(ch) == \E i \in 1..Len(Digits) : Digits[i] = ch

\* The number a token of decimal digits denotes, -1 for any other token.
RECURSIVE ParseDigits(_, _, _)
ParseDigits(tok, i, acc) ==
  IF i > Len(tok) THEN acc
  ELSE IF ~IsDigit(tok[i]) THEN -1
  ELSE ParseDigits(tok, i + 1, acc * 10 + DigitValue(tok[i]))

ParseInt(tok) == IF tok = NoValue THEN -1 ELSE ParseDigits(tok, 1, 0)

LimitMin == 1
LimitMax == 50
VolumeMin == 1
VolumeMax == 100

NoAction ==
  [tag |-> "None", ops |-> {}, targetKind |-> "", targetVal |-> NoValue,
   context |-> "", queue |-> FALSE, random |-> FALSE, kind |-> "",
   query |-> NoValue, limit |-> {}, format |-> NoValue]

Op(name, n, v) == [op |-> name, n |-> n, v |-> v]

\* The resolved value of an argument, NoValue when it was left unset.
ValueOf(m, a) == IF Contains(m, a) THEN m[a].val ELSE NoValue

\* A seek token: relative forwards with +, backwards with -, else absolute.
SeekOp(tok) ==
  IF tok # NoValue /\ tok[1] = "+"
    THEN Op("SeekTo", ParseInt(Tail(tok)), Str("forward"))
  ELSE IF tok # NoValue /\ tok[1] = "-"
    THEN Op("SeekTo", ParseInt(Tail(tok)), Str("backward"))
  ELSE Op("SeekTo", ParseInt(tok), Str("absolute"))

PlaybackOpOf(m, a) ==
  CASE a = "toggle" -> Op("Toggle", 0, NoValue)
    [] a = "status" -> Op("Status", 0, NoValue)
    [] a = "share-track" -> Op("ShareTrack", 0, NoValue)
    [] a = "share-album" -> Op("ShareAlbum", 0, NoValue)
    [] a = "transfer" -> Op("TransferTo", 0, m[a].val)
    [] a = "like" -> Op("Like", 0, NoValue)
    [] a = "dislike" -> Op("Dislike", 0, NoValue)
    [] a = "shuffle" -> Op("ToggleShuffle", 0, NoValue)
    [] a = "repeat" -> Op("CycleRepeat", 0, NoValue)
    [] a = "next" -> Op("SkipNext", 1, NoValue)
    [] a = "previous" -> Op("SkipPrevious", 1, NoValue)
    [] a = "seek" -> SeekOp(m[a].val)
    [] a = "volume" -> Op("SetVolume", ParseInt(m[a].val), NoValue)

PlaybackOps(m) ==
  LET present == Explicit(m) \ {"device", "format"}
  IN  IF present = {} THEN {Op("Status", 0, NoValue)}
      ELSE {PlaybackOpOf(m, a) : a \in present}

\* The one explicitly matched member of a group ("" when there is none).
MemberOf(c, m, g) ==
  LET present == FindGroup(c, g).args \cap Explicit(m)
  IN  IF present = {} THEN "" ELSE CHOOSE a \in present : TRUE

\* Variant: only the upper bounds are checked.
BoundErrorUpperOnly(c, m) ==
  \/ /\ c \in {"list", "search"}
     /\ CheckExplicit(m, "limit")
     /\ ParseInt(m["limit"].val) > LimitMax
  \/ /\ c = "playback"
     /\ CheckExplicit(m, "volume")
     /\ ParseInt(m["volume"].val) > VolumeMax

\* The numeric options of a command with their bounds.
BoundError(c, m) ==
  \/ /\ c \in {"list", "search"}
     /\ CheckExplicit(m, "limit")
     /\ ParseInt(m["limit"].val) >= 0
     /\ ParseInt(m["limit"].val) \notin LimitMin..LimitMax
  \/ /\ c = "playback"
     /\ CheckExplicit(m, "volume")
     /\ ParseInt(m["volume"].val) >= 0
     /\ ParseInt(m["volume"].val) \notin VolumeMin..VolumeMax

BadNumber(c, m) ==
  \/ c \in {"list", "search"} /\ CheckExplicit(m, "limit")
       /\ ParseInt(m["limit"].val) < 0
  \/ c = "playback" /\ CheckExplicit(m, "volume")
       /\ ParseInt(m["volume"].val) < 0
  \/ c = "playback" /\ CheckExplicit(m, "seek")
       /\ SeekOp(m["seek"].val).n < 0

BuildError(c, m) ==
  IF BadNumber(c, m) THEN "SyntaxError"
  ELSE IF BoundError(c, m) THEN "BoundError"
  ELSE "Ok"

LimitOf(m) ==
  IF CheckExplicit(m, "limit") THEN {ParseInt(m["limit"].val)} ELSE {}

Build(c, m) ==
  CASE c = "playback" ->
         [NoAction EXCEPT !.tag = "Playback", !.ops = PlaybackOps(m),
                          !.format = ValueOf(m, "format")]
    [] c = "play" ->
         [NoAction EXCEPT !.tag = "Play",
                          !.targetKind = IF CheckExplicit(m, "uri")
                                           THEN "Uri" ELSE "Name",
                          !.targetVal = IF CheckExplicit(m, "uri")
                                          THEN m["uri"].val
                                          ELSE ValueOf(m, "name"),
                          !.context = MemberOf(c, m, "contexts"),
                          !.queue = CheckExplicit(m, "queue"),
                          !.random = CheckExplicit(m, "random"),
                          !.format = ValueOf(m, "format")]
    [] c = "list" ->
         [NoAction EXCEPT !.tag = "List", !.kind = MemberOf(c, m, "listable"),
                          !.limit = LimitOf(m),
                          !.format = ValueOf(m, "format")]
    [] c = "search" ->
         [NoAction EXCEPT !.tag = "Search",
                          !.kind = MemberOf(c, m, "searchable"),
                          !.query = ValueOf(m, "search"),
                          !.limit = LimitOf(m),
                          !.format = ValueOf(m, "format")]

(***************************************************************************)
(* One invocation: the occurrences are parsed one by one, the defaults are *)
(* added, the matches are validated and the Action is built.  An error     *)
(* ends the invocation in the phase it arose in, without an Action.        *)
(***************************************************************************)
\* The flags the help texts describe as repeatable.
Counted == {"next", "previous"}

Init ==
  /\ cmd \in Commands
  /\ phase = "parse"
  /\ matcher = EmptyMatcher
  /\ argc = 0
  /\ counted = [a \in Counted |-> 0]
  /\ err = "Ok"
  /\ action = NoAction

\* The parser reads one more occurrence: option a, with or without a value.
\* argc counts the occurrences read, counted the bare occurrences of the
\* repeatable flags.  A parse error surfaces no matches.
ParseArg(a, v) ==
  /\ phase = "parse"
  /\ err = "Ok"
  /\ argc < MaxArgs
  /\ a \in Positionals(cmd) => v # NoValue
  /\ argc' = argc + 1
  /\ counted' = IF a \in Counted /\ v = NoValue
                  THEN [counted EXCEPT ![a] = @ + 1]
                  ELSE counted
  /\ err' = React(cmd, matcher, a, v)
  /\ matcher' = IF err' = "Ok"
                  THEN Insert(matcher, a, "CommandLine", StoredValue(cmd, a, v))
                  ELSE EmptyMatcher
  /\ UNCHANGED <<cmd, phase, action>>

\* End of the arguments: the defaults are filled in.
EndOfArgs ==
  /\ phase = "parse"
  /\ err = "Ok"
  /\ phase' = "defaulted"
  /\ matcher' = AddDefaults(cmd, matcher)
  /\ UNCHANGED <<cmd, argc, counted, err, action>>

\* The matches are validated; a violation ends the invocation.
Validation ==
  /\ phase = "defaulted"
  /\ err = "Ok"
  /\ err' = Validate(cmd, matcher)
  /\ phase' = IF err' = "Ok" THEN "validated" ELSE phase
  /\ UNCHANGED <<cmd, matcher, argc, counted, action>>

\* The Action is built from the validated matches, or a build error ends
\* the invocation.
BuildAction ==
  /\ phase = "validated"
  /\ err = "Ok"
  /\ err' = BuildError(cmd, matcher)
  /\ action' = IF err' = "Ok" THEN Build(cmd, matcher) ELSE NoAction
  /\ phase' = IF err' = "Ok" THEN "built" ELSE phase
  /\ UNCHANGED <<cmd, matcher, argc, counted>>

Next ==
  \/ \E a \in AllIds : \E v \in Values(cmd, a) \cup {NoValue} : ParseArg(a, v)
  \/ EndOfArgs
  \/ Validation
  \/ BuildAction

Spec == Init /\ [][Next]_vars

TypeOK ==
  /\ cmd \in Commands
  /\ phase \in {"parse", "defaulted", "validated", "built"}
  /\ DOMAIN matcher \subseteq Args(cmd)
  /\ argc \in 0..MaxArgs
  /\ err \in {"Ok", "UnknownArgument", "InvalidValue", "TooManyValues",
              "ArgumentConflict", "MissingRequiredArgument", "SyntaxError",
              "BoundError"}
  /\ action.tag # "None" <=> phase = "built"

(***************************************************************************)
(* Vocabulary of the properties.                                           *)
(***************************************************************************)
\* The options supplied on the command line that the parse kept.
Supplied == {a \in DOMAIN matcher : matcher[a].source = "CommandLine"}

Given(a) == a \in Supplied

AnyGiven(S) == S \cap Supplied # {}

\* The invocation got through the parser, the validator, the builder.
Parsed == phase # "parse"
PassedValidation == phase \in {"validated", "built"}
FailedValidation == phase = "defaulted" /\ err # "Ok"
FailedBuild == phase = "validated" /\ err # "Ok"
Accepted == phase = "built"
Ended == err # "Ok" \/ phase = "built"


\* The options of playback that select an operation.
PlaybackActionOptions ==
  {"toggle", "status", "transfer", "volume", "like", "dislike", "shuffle",
   "repeat", "seek", "next", "previous", "share-track", "share-album"}

(***************************************************************************)
(* C1.  An invocation of playback that consists of k >= 1 bare occurrences *)
(* of --next and nothing else is accepted and its Action is SkipNext(k);   *)
(* an accepted invocation without --next holds no SkipNext operation.      *)
(***************************************************************************)
C1_CountedNext ==
  cmd = "playback" =>
    /\ (Ended /\ argc >= 1 /\ counted["next"] = argc) =>
         (Accepted /\ action.ops = {Op("SkipNext", argc, NoValue)})
    /\ (Accepted /\ counted["next"] = 0) =>
         ~(\E o \in action.ops : o.op = "SkipNext")

(***************************************************************************)
(* C3.  No accepted invocation of playback has one of --next, --previous,  *)
(* --share-track, --share-album together with another option that selects  *)
(* an operation.                                                           *)
(***************************************************************************)
C3_AloneOptions ==
  (cmd = "playback" /\ PassedValidation) =>
    \A a \in {"next", "previous", "share-track", "share-album"} :
      Given(a) => ~AnyGiven(PlaybackActionOptions \ {a})


LimitGiven == cmd \in {"list", "search"} /\ Given("limit")

VolumeGiven == cmd = "playback" /\ Given("volume")

LimitOutside == LimitGiven /\ matcher["limit"].val \in {<<"0">>, <<"5", "1">>}

LimitInside == LimitGiven /\ matcher["limit"].val \in {<<"1">>, <<"5", "0">>}

VolumeOutside ==
  VolumeGiven /\ matcher["volume"].val \in {<<"0">>, <<"1", "0", "1">>}

(***************************************************************************)
(* C2.  The numeric bounds hold before an Action is returned: an Action of *)
(* list or search carries no limit outside 1..50 and an Action of playback *)
(* no volume outside 1..100; an invocation whose --limit (or --volume) is  *)
(* a number outside its bounds is never accepted, and ends with a bound    *)
(* error when it passed validation; a list or search invocation that       *)
(* passed validation with a --limit in 1..50 is accepted.                  *)
(***************************************************************************)
C2_BoundsEnforced ==
  /\ \A v \in action.limit : v >= 1 /\ v <= 50
  /\ \A o \in action.ops : o.op = "SetVolume" => (o.n >= 1 /\ o.n <= 100)
  /\ (LimitOutside \/ VolumeOutside) => ~Accepted
  /\ ((LimitOutside \/ VolumeOutside) /\ PassedValidation /\ Ended) =>
       (err = "BoundError" /\ action = NoAction)
  /\ (LimitInside /\ PassedValidation /\ Ended) =>
       (Accepted /\ action.limit = {IF matcher["limit"].val = <<"1">>
                                      THEN 1 ELSE 50})

C2_Witness ==
  /\ cmd = "list"
  /\ FailedBuild
  /\ err = "BoundError"
  /\ matcher["limit"].val = <<"5", "1">>

Jumps == {"next", "previous"}
Flags == {"like", "dislike", "shuffle", "repeat"}
Actions == {"toggle", "status", "transfer", "volume"}
Single == {"share-track", "share-album"}

(***************************************************************************)
(* C4.  In every invocation of playback that passed validation, a present  *)
(* member of jumps excludes every member of flags, actions and single, and *)
(* a present member of single excludes every member of actions, flags and  *)
(* jumps (in both directions); a mix of members of flags and actions alone *)
(* is never a conflict unless like and dislike are both present.           *)
(***************************************************************************)
C4_GroupConflicts ==
  cmd = "playback" =>
    /\ PassedValidation =>
         /\ AnyGiven(Jumps) => ~AnyGiven(Flags \cup Actions \cup Single)
         /\ AnyGiven(Single) => ~AnyGiven(Actions \cup Flags \cup Jumps)
         /\ AnyGiven(Flags) => ~AnyGiven(Jumps \cup Single)
         /\ AnyGiven(Actions) => ~AnyGiven(Jumps \cup Single)
    /\ ( /\ FailedValidation
         /\ Supplied \cap PlaybackActionOptions \subseteq Flags \cup Actions )
       => (Given("like") /\ Given("dislike"))

C4_Witness ==
  /\ cmd = "playback"
  /\ FailedValidation
  /\ err = "ArgumentConflict"
  /\ Given("share-album")
  /\ Given("previous")

AtMostOneGroups ==
  CASE cmd = "playback" -> {Jumps, {"like", "dislike"}, Single}
    [] cmd = "play" -> {{"track", "artist", "playlist", "album", "show"},
                        {"uri", "name"}}
    [] cmd = "list" -> {{"devices", "playlists", "liked"}}
    [] cmd = "search" -> {{"playlists", "tracks", "albums", "artists", "shows"}}

TwoOfAGroup == \E g \in AtMostOneGroups : Cardinality(g \cap Supplied) >= 2

(***************************************************************************)
(* C5.  An invocation with two or more present members of a group that     *)
(* allows at most one never passes validation: validation ends it with the *)
(* conflict error and no Action is built from it.                          *)
(***************************************************************************)
C5_AtMostOne ==
  TwoOfAGroup =>
    /\ ~PassedValidation
    /\ action = NoAction
    /\ (phase = "defaulted" /\ Ended) => err = "ArgumentConflict"

C5_Witness ==
  /\ cmd = "play"
  /\ FailedValidation
  /\ err = "ArgumentConflict"
  /\ Given("track")
  /\ Given("artist")
  /\ Given("uri")


\* The required group of play, list and search, and its one present member.
RequiredGroup ==
  CASE cmd = "play" -> {"uri", "name"}
    [] cmd = "list" -> {"devices", "playlists", "liked"}
    [] cmd = "search" -> {"playlists", "tracks", "albums", "artists", "shows"}
    [] OTHER -> {}

Contexts == {"track", "artist", "playlist", "album", "show"}

ExactlyOneRequired ==
  /\ cmd \in {"play", "list", "search"}
  /\ Cardinality(RequiredGroup \cap Supplied) = 1
  /\ cmd = "search" => Given("search")

TheMember == CHOOSE a \in RequiredGroup \cap Supplied : TRUE

\* The Action carries the intent of the one present member.
Tagged ==
  CASE cmd = "play" ->
         /\ action.tag = "Play"
         /\ Given("uri") =>
              (action.targetKind = "Uri" /\ action.targetVal = matcher["uri"].val)
         /\ Given("name") =>
              /\ action.targetKind = "Name"
              /\ action.targetVal = matcher["name"].val
              /\ Contexts \cap Supplied = {action.context}
    [] cmd = "list" -> action.tag = "List" /\ action.kind = TheMember
    [] cmd = "search" -> action.tag = "Search" /\ action.kind = TheMember
    [] OTHER -> FALSE

OtherRules ==
  /\ cmd = "play" =>
       /\ Cardinality(Contexts \cap Supplied) <= 1
       /\ Given("name") => Cardinality(Contexts \cap Supplied) = 1
       /\ Given("queue") => ~AnyGiven({"album", "artist", "playlist", "show"})
       /\ Given("random") => ~AnyGiven({"track", "album", "artist", "show"})
  /\ cmd \in {"list", "search"} =>
       (Given("limit") => matcher["limit"].val \in {<<"1">>, <<"5", "0">>})

ExpectedFormat ==
  CASE cmd = "playback" ->
         IF Given("seek") THEN <<"%f %s %t - %a %r">>
         ELSE IF Given("volume") THEN <<"%v% %f %s %t - %a">>
         ELSE IF Given("transfer") THEN <<"%f %s %t - %a on %d">>
         ELSE <<"%f %s %t - %a">>
    [] cmd = "list" ->
         IF Given("devices") THEN <<"%v% %d">>
         ELSE IF Given("liked") THEN <<"%t - %a (%u)">>
         ELSE IF Given("playlists") THEN <<"%p (%u)">>
         ELSE <<>>
    [] cmd = "play" -> <<"%f %s %t - %a">>
    [] cmd = "search" ->
         IF Given("tracks") THEN <<"%t - %a (%u)">>
         ELSE IF Given("playlists") THEN <<"%p (%u)">>
         ELSE IF Given("artists") THEN <<"%a (%u)">>
         ELSE IF Given("albums") THEN <<"%b - %a (%u)">>
         ELSE IF Given("shows") THEN <<"%h - %a (%u)">>
         ELSE <<>>

ResolvedFormat == IF "format" \in DOMAIN matcher THEN matcher["format"].val ELSE <<>>

(***************************************************************************)
(* C7.  The format is the supplied one when --format is given; otherwise   *)
(* it is the value of the first rule, in declared order, whose option is   *)
(* present, and the static default when no rule matches.                   *)
(***************************************************************************)
C7_FormatFirstMatch ==
  (Parsed /\ cmd \in {"playback", "list"}) =>
    /\ Given("format") => ResolvedFormat = <<"%t">>
    /\ ~Given("format") => ResolvedFormat = ExpectedFormat
    /\ Accepted => action.format = ResolvedFormat

C7_Witness ==
  /\ cmd = "playback"
  /\ Accepted
  /\ Given("volume")
  /\ Given("transfer")
  /\ ~Given("seek")
  /\ action.format = <<"%v% %f %s %t - %a">>

PlayRules ==
  /\ Cardinality({"uri", "name"} \cap Supplied) = 1
  /\ Given("name") => Cardinality(Contexts \cap Supplied) = 1
  /\ Given("queue") => ~AnyGiven({"album", "artist", "playlist", "show"})
  /\ Given("random") => ~AnyGiven({"track", "album", "artist", "show"})

(***************************************************************************)
(* C8.  A play invocation passes validation only with exactly one of uri   *)
(* and name, with exactly one context flag when name is present, without   *)
(* queue next to album, artist, playlist or show, and without random next  *)
(* to track, album, artist or show; any other yields no Action.            *)
(***************************************************************************)
C8_PlayAcceptance ==
  cmd = "play" =>
    /\ PassedValidation => PlayRules
    /\ (Parsed /\ Ended /\ ~PlayRules) => (err # "Ok" /\ action = NoAction)
    /\ ~Accepted => action = NoAction

C8_Witness ==
  /\ cmd = "play"
  /\ FailedValidation
  /\ Given("name")
  /\ Given("playlist")
  /\ Given("queue")

Together == {"status", "toggle", "transfer", "volume", "like", "repeat", "shuffle"}

(***************************************************************************)
(* C9.  Every playback invocation whose operation options are a non-empty  *)
(* subset of status, toggle, transfer, volume, like, repeat and shuffle    *)
(* passes validation.                                                      *)
(***************************************************************************)
C9_UsedTogether ==
  ( /\ cmd = "playback"
    /\ phase # "parse"
    /\ Supplied \cap PlaybackActionOptions # {}
    /\ Supplied \cap PlaybackActionOptions \subseteq Together )
  => (err \notin {"ArgumentConflict", "MissingRequiredArgument"}
      /\ (Ended => PassedValidation))

C9_Witness ==
  /\ cmd = "playback"
  /\ Accepted
  /\ Together \subseteq Supplied
  /\ Cardinality(action.ops) = 7

MemberFormat(a) ==
  IF cmd = "list"
    THEN CASE a = "devices" -> <<"%v% %d">>
           [] a = "liked" -> <<"%t - %a (%u)">>
           [] a = "playlists" -> <<"%p (%u)">>
    ELSE CASE a = "tracks" -> <<"%t - %a (%u)">>
           [] a = "playlists" -> <<"%p (%u)">>
           [] a = "artists" -> <<"%a (%u)">>
           [] a = "albums" -> <<"%b - %a (%u)">>
           [] a = "shows" -> <<"%h - %a (%u)">>

(***************************************************************************)
(* C10.  Every list or search invocation that passed validation has a      *)
(* resolved format, and without --format it is the value attached to the   *)
(* one present member of listable / searchable.                            *)
(***************************************************************************)
C10_FormatNeverUnset ==
  (cmd \in {"list", "search"} /\ PassedValidation) =>
    /\ "format" \in DOMAIN matcher
    /\ matcher["format"].val # <<>>
    /\ Cardinality(RequiredGroup \cap Supplied) = 1
    /\ ~Given("format") => matcher["format"].val = MemberFormat(TheMember)
    /\ Accepted => action.format = matcher["format"].val

C10_Witness ==
  /\ cmd = "search"
  /\ Accepted
  /\ Given("albums")
  /\ ~Given("format")
  /\ action.format = <<"%b - %a (%u)">>

====
